---- MODULE Spec2Model ----
(***************************************************************************)
(* Usage-tracking and paginated-query engine of the emote keeper bot       *)
(* (src/main.go): the two counter tables, the gateway event handlers that  *)
(* write them, the reset command, and the pagination handlers that read    *)
(* them.                                                                   *)
(*                                                                         *)
(* A table is a function from <<server_id, item_id>> (its primary key) to  *)
(* a row; a pair without a row is outside the function's DOMAIN.  Every    *)
(* SQL statement is one atomic step.  CURRENT_TIMESTAMP is the logical     *)
(* clock `now`, which Tick advances between statements.                    *)
(***************************************************************************)
EXTENDS Integers, Sequences, FiniteSets, TLC

VARIABLES
    emojis,      \* table emojis: <<server_id, emote_id>> -> row
    stickers,    \* table stickers: <<server_id, sticker_id>> -> row
    now,         \* CURRENT_TIMESTAMP
    resetPc,     \* handleResetCount between its two DELETE statements, or Idle
    request,     \* the interaction being answered (history)
    response,    \* what RespondInteraction was last called with, or NoResponse
    ghost,       \* history per <<kind, server_id, item_id>> since the pair was last fresh
    nEvents,     \* number of store-writing events so far (bounds the run)
    inflight,    \* the handler goroutines spawned: id -> event, calls left, calls made
    emojiCache,       \* map guild -> CachedEmojiList
    emojiCacheMutex,  \* the getGuildEmojis call that holds the mutex, or Unlocked
    calls,       \* the getGuildEmojis calls: id -> position and history
    live         \* the emojis each guild has at Discord now

storeVars == <<emojis, stickers, now, resetPc, request, response, ghost, nEvents>>
cacheVars == <<emojiCache, emojiCacheMutex, calls, live>>
vars == <<emojis, stickers, now, resetPc, request, response, ghost, nEvents,
          inflight, emojiCache, emojiCacheMutex, calls, live>>

----------------------------------------------------------------------------
(* Bounds of the model *)

MaxTime == 1
MaxEvents == 3
MaxEventsOne == 5

(* Inputs *)

NoGuild == 0          \* an invalid GuildID: a direct message
Servers == {1, 2}
EmojiIDs == {1}
StickerIDs == {1}
UnicodeEmoji == 0     \* Emoji.ID of a standard Unicode emoji: not custom
TooBig == -1          \* stands for a digit string beyond the int64 range
Names == {"foo"}

Max(a, b) == IF a >= b THEN a ELSE b
Min(a, b) == IF a <= b THEN a ELSE b

Get(f, k, d) == IF k \in DOMAIN f THEN f[k] ELSE d

----------------------------------------------------------------------------
(* Counter store: the SQL statements *)

\* INSERT ... VALUES (?, ?, ?, 1) with the schema's DEFAULT CURRENT_TIMESTAMP
NewRow(name, t) ==
    [name |-> name, usage_count |-> 1, first_used |-> t, last_used |-> t]

\* Mutant: the conflict branch does nothing (ON CONFLICT DO NOTHING).
trackCustomEmoji_Ignore(tbl, emojiName, emojiID, serverID, t) ==
    LET k == <<serverID, emojiID>> IN
    IF k \in DOMAIN tbl THEN tbl ELSE tbl @@ (k :> NewRow(emojiName, t))

\* Mutant: the conflict branch replaces the row (INSERT OR REPLACE).
trackCustomEmoji_Replace(tbl, emojiName, emojiID, serverID, t) ==
    LET k == <<serverID, emojiID>> IN
    IF k \in DOMAIN tbl
    THEN [tbl EXCEPT ![k] = [name |-> emojiName, usage_count |-> @.usage_count + 1,
                             first_used |-> t, last_used |-> t]]
    ELSE tbl @@ (k :> NewRow(emojiName, t))

\* INSERT INTO emojis ... ON CONFLICT(server_id, emote_id) DO UPDATE SET
\*   usage_count = usage_count + 1, last_used = CURRENT_TIMESTAMP
trackCustomEmoji(tbl, emojiName, emojiID, serverID, t) ==
    LET k == <<serverID, emojiID>> IN
    IF k \in DOMAIN tbl
    THEN [tbl EXCEPT ![k] = [@ EXCEPT !.usage_count = @ + 1, !.last_used = t]]
    ELSE tbl @@ (k :> NewRow(emojiName, t))

\* Mutant: a decrement that creates the row it does not find.
decreaseCustomEmoji_Upsert(tbl, emojiID, serverID) ==
    LET k == <<serverID, emojiID>> IN
    IF k \in DOMAIN tbl
    THEN [tbl EXCEPT ![k] = [@ EXCEPT !.usage_count = Max(0, @ - 1)]]
    ELSE tbl @@ (k :> [name |-> "", usage_count |-> 0, first_used |-> 0, last_used |-> 0])

\* Mutant: the decrement without its floor.
decreaseCustomEmoji_NoFloor(tbl, emojiID, serverID) ==
    LET k == <<serverID, emojiID>> IN
    IF k \in DOMAIN tbl
    THEN [tbl EXCEPT ![k] = [@ EXCEPT !.usage_count = @ - 1]]
    ELSE tbl

\* UPDATE emojis SET usage_count = MAX(0, usage_count - 1)
\*   WHERE server_id = ? AND emote_id = ?
decreaseCustomEmoji(tbl, emojiID, serverID) ==
    LET k == <<serverID, emojiID>> IN
    IF k \in DOMAIN tbl
    THEN [tbl EXCEPT ![k] = [@ EXCEPT !.usage_count = Max(0, @ - 1)]]
    ELSE tbl

\* INSERT INTO stickers ... ON CONFLICT(server_id, sticker_id) DO UPDATE SET
\*   usage_count = usage_count + 1, last_used = CURRENT_TIMESTAMP
trackSticker(tbl, stickerID, stickerName, serverID, t) ==
    LET k == <<serverID, stickerID>> IN
    IF k \in DOMAIN tbl
    THEN [tbl EXCEPT ![k] = [@ EXCEPT !.usage_count = @ + 1, !.last_used = t]]
    ELSE tbl @@ (k :> NewRow(stickerName, t))

\* Mutant: a DELETE without its WHERE clause.
DeleteServerRows_All(tbl, serverID) ==
    [k \in {x \in DOMAIN tbl : FALSE} |-> tbl[k]]

\* DELETE FROM <table> WHERE server_id = ?
DeleteServerRows(tbl, serverID) ==
    [k \in {x \in DOMAIN tbl : x[1] # serverID} |-> tbl[k]]

----------------------------------------------------------------------------
(* Extractor *)

\* A message's content is a sequence of segments: plain text, or an inline
\* token <:name:id> / <a:name:id> whose id is a digit string.
TextSeg == [kind |-> "text", animated |-> FALSE, name |-> "", id |-> 0]
EmojiSeg(a, n, i) == [kind |-> "emoji", animated |-> a, name |-> n, id |-> i]

\* Mutant: the pattern without its optional animated flag, <:(\w+):(\d+)>.
customEmojiRegex_NoAnimated(content) ==
    SelectSeq(content, LAMBDA seg : seg.kind = "emoji" /\ ~seg.animated)

\* customEmojiRegex.FindAllStringSubmatch(content, -1): every token, in order
customEmojiRegex(content) ==
    SelectSeq(content, LAMBDA seg : seg.kind = "emoji")

\* strconv.ParseInt(emojiIDStr, 10, 64) of a digit string
ParseInt(idStr) ==
    IF idStr = TooBig THEN [err |-> TRUE, val |-> 0] ELSE [err |-> FALSE, val |-> idStr]

RECURSIVE TrackMatches(_, _, _, _)
TrackMatches(tbl, matches, serverID, t) ==
    IF matches = <<>> THEN tbl
    ELSE LET match == Head(matches)
             parsed == ParseInt(match.id)
         IN  IF parsed.err
             THEN TrackMatches(tbl, Tail(matches), serverID, t)
             ELSE TrackMatches(trackCustomEmoji(tbl, match.name, parsed.val, serverID, t),
                               Tail(matches), serverID, t)

processCustomEmojis(tbl, content, serverID, t) ==
    TrackMatches(tbl, customEmojiRegex(content), serverID, t)

RECURSIVE processStickers(_, _, _, _)
processStickers(tbl, stks, serverID, t) ==
    IF stks = <<>> THEN tbl
    ELSE processStickers(trackSticker(tbl, Head(stks).id, Head(stks).name, serverID, t),
                         Tail(stks), serverID, t)

----------------------------------------------------------------------------
(* History: what happened to each pair since it was last fresh *)

Scenario == <<"msg", "msg", "msg", "add", "rem">>

Fresh == [n |-> 0, first |-> 0, last |-> 0, pure |-> TRUE, fold |-> 0, scen |-> 0,
          floored |-> FALSE]

Advance(scen, ev) ==
    IF scen >= 0 /\ scen < Len(Scenario) /\ Scenario[scen + 1] = ev THEN scen + 1 ELSE -1

\* an upsert touch of pair key at time t, caused by event ev ("msg", "add" or "stk")
GTouch(g, key, t, ev) ==
    LET h == Get(g, key, Fresh)
        h2 == [n |-> h.n + 1,
               first |-> IF h.n = 0 THEN t ELSE h.first,
               last |-> t,
               pure |-> h.pure,
               fold |-> h.fold + 1,
               scen |-> Advance(h.scen, ev),
               floored |-> h.floored]
    IN  [k \in DOMAIN g \cup {key} |-> IF k = key THEN h2 ELSE g[k]]

\* a decrement issued on pair key
GDec(g, key) ==
    LET h == Get(g, key, Fresh)
        h2 == [h EXCEPT !.pure = FALSE,
                        !.fold = Max(0, @ - 1),
                        !.scen = Advance(@, "rem"),
                        !.floored = @ \/ (h.n > 0 /\ h.fold = 0)]
    IN  [k \in DOMAIN g \cup {key} |-> IF k = key THEN h2 ELSE g[k]]

\* the references of a message, by the token grammar itself
RECURSIVE GRefs(_, _, _, _)
GRefs(g, content, serverID, t) ==
    IF content = <<>> THEN g
    ELSE LET seg == Head(content) IN
         IF seg.kind = "emoji" /\ seg.id # TooBig
         THEN GRefs(GTouch(g, <<"emoji", serverID, seg.id>>, t, "msg"), Tail(content), serverID, t)
         ELSE GRefs(g, Tail(content), serverID, t)

RECURSIVE GStickers(_, _, _, _)
GStickers(g, stks, serverID, t) ==
    IF stks = <<>> THEN g
    ELSE GStickers(GTouch(g, <<"sticker", serverID, Head(stks).id>>, t, "stk"),
                   Tail(stks), serverID, t)

\* every pair of one kind and one server is fresh again
GForget(g, kind, serverID) ==
    [k \in {x \in DOMAIN g : ~(x[1] = kind /\ x[2] = serverID)} |-> g[k]]

----------------------------------------------------------------------------
(* Event router *)

Idle == [stage |-> "idle", server |-> 0, err1 |-> FALSE, hadEmojis |-> FALSE]
NoRequest == [type |-> "none"]
NoResponse == [type |-> "none"]

\* GuildID.IsValid()
IsValid(guildID) == guildID # NoGuild

\* Emoji.IsCustom()
IsCustom(emojiID) == emojiID # UnicodeEmoji

handleMessageCreate(bot, guildID, content, stks) ==
    /\ IF bot \/ ~IsValid(guildID)
       THEN UNCHANGED <<emojis, stickers, ghost, nEvents>>
       ELSE /\ emojis' = processCustomEmojis(emojis, content, guildID, now)
            /\ stickers' = IF Len(stks) > 0
                           THEN processStickers(stickers, stks, guildID, now)
                           ELSE stickers
            /\ ghost' = GStickers(GRefs(ghost, content, guildID, now), stks, guildID, now)
            /\ nEvents' = nEvents + 1
    /\ request' = NoRequest
    /\ response' = NoResponse
    /\ UNCHANGED <<now, resetPc>>

handleMessageReactionAdd(guildID, emojiID, emojiName) ==
    /\ IF ~IsValid(guildID) \/ ~IsCustom(emojiID)
       THEN UNCHANGED <<emojis, ghost, nEvents>>
       ELSE /\ emojis' = trackCustomEmoji(emojis, emojiName, emojiID, guildID, now)
            /\ ghost' = GTouch(ghost, <<"emoji", guildID, emojiID>>, now, "add")
            /\ nEvents' = nEvents + 1
    /\ request' = NoRequest
    /\ response' = NoResponse
    /\ UNCHANGED <<stickers, now, resetPc>>

handleMessageReactionRemove(guildID, emojiID) ==
    /\ IF ~IsValid(guildID) \/ ~IsCustom(emojiID)
       THEN UNCHANGED <<emojis, ghost, nEvents>>
       ELSE /\ emojis' = decreaseCustomEmoji(emojis, emojiID, guildID)
            /\ ghost' = GDec(ghost, <<"emoji", guildID, emojiID>>)
            /\ nEvents' = nEvents + 1
    /\ request' = NoRequest
    /\ response' = NoResponse
    /\ UNCHANGED <<stickers, now, resetPc>>

Tick ==
    /\ now < MaxTime
    /\ now' = now + 1
    /\ request' = NoRequest
    /\ response' = NoResponse
    /\ UNCHANGED <<emojis, stickers, resetPc, ghost, nEvents>>

----------------------------------------------------------------------------
(* /resetcount *)

CountRows(tbl, serverID) == Cardinality({k \in DOMAIN tbl : k[1] = serverID})

\* isInGuild, then the first statement: DELETE FROM emojis WHERE server_id = ?
ResetDeleteEmojis(inGuild, guildID, err1) ==
    /\ resetPc = Idle
    /\ request' = [type |-> "resetcount", server |-> guildID,
                   hadEmojis |-> FALSE, hadStickers |-> FALSE]
    /\ IF ~(inGuild /\ IsValid(guildID))
       THEN /\ response' = [type |-> "error", text |-> "This command can only be used in a server."]
            /\ UNCHANGED <<emojis, ghost, resetPc>>
       ELSE /\ emojis' = IF err1 THEN emojis ELSE DeleteServerRows(emojis, guildID)
            /\ ghost' = IF err1 THEN ghost ELSE GForget(ghost, "emoji", guildID)
            /\ resetPc' = [stage |-> "emojisDone", server |-> guildID, err1 |-> err1,
                            hadEmojis |-> CountRows(emojis, guildID) > 0]
            /\ response' = NoResponse
    /\ UNCHANGED <<stickers, now, nEvents>>

\* Mutant: the answer looks at the second statement's error only.
ResetDeleteStickers_ForgetsFirst(err2) ==
    /\ resetPc.stage = "emojisDone"
    /\ stickers' = IF err2 THEN stickers ELSE DeleteServerRows(stickers, resetPc.server)
    /\ ghost' = IF err2 THEN ghost ELSE GForget(ghost, "sticker", resetPc.server)
    /\ response' = IF err2
                   THEN [type |-> "error", text |-> "Failed to reset counts."]
                   ELSE [type |-> "resetOk", text |-> "All emoji and sticker counts have been reset for this server."]
    /\ resetPc' = Idle
    /\ request' = [type |-> "resetcount", server |-> resetPc.server,
                   hadEmojis |-> resetPc.hadEmojis,
                   hadStickers |-> CountRows(stickers, resetPc.server) > 0]
    /\ UNCHANGED <<emojis, now, nEvents>>

\* the second statement, DELETE FROM stickers WHERE server_id = ?, and the answer
ResetDeleteStickers(err2) ==
    /\ resetPc.stage = "emojisDone"
    /\ stickers' = IF err2 THEN stickers ELSE DeleteServerRows(stickers, resetPc.server)
    /\ ghost' = IF err2 THEN ghost ELSE GForget(ghost, "sticker", resetPc.server)
    /\ response' = IF resetPc.err1 \/ err2
                   THEN [type |-> "error", text |-> "Failed to reset counts."]
                   ELSE [type |-> "resetOk", text |-> "All emoji and sticker counts have been reset for this server."]
    /\ resetPc' = Idle
    /\ request' = [type |-> "resetcount", server |-> resetPc.server,
                   hadEmojis |-> resetPc.hadEmojis,
                   hadStickers |-> CountRows(stickers, resetPc.server) > 0]
    /\ UNCHANGED <<emojis, now, nEvents>>

----------------------------------------------------------------------------
(* The store under gateway events and resets *)

\* message contents: no token, one, the same one twice, an animated one after
\* text, and one whose id does not fit int64 before a good one
Contents ==
    UNION {{ <<>>,
             <<TextSeg>>,
             <<EmojiSeg(FALSE, n, i)>>,
             <<EmojiSeg(FALSE, n, i), EmojiSeg(FALSE, n, i)>>,
             <<TextSeg, EmojiSeg(TRUE, n, i)>>,
             <<EmojiSeg(FALSE, n, TooBig), EmojiSeg(FALSE, n, i)>> } : n \in Names, i \in EmojiIDs}

StickerItem(i) == [id |-> i, name |-> "stk"]
StickerLists ==
    UNION {{ <<>>, <<StickerItem(i)>>, <<StickerItem(i), StickerItem(i)>> } : i \in StickerIDs}
OneSticker == {st \in StickerLists : Len(st) <= 1}

EmptyTable == [k \in {} |-> 0]

Unlocked == 0

\* nothing spawned, nothing cached, no guild has emojis yet
InitRest ==
    /\ inflight = EmptyTable
    /\ emojiCache = EmptyTable
    /\ emojiCacheMutex = Unlocked
    /\ calls = EmptyTable
    /\ live = [g \in Servers |-> <<>>]

Init ==
    /\ emojis = EmptyTable
    /\ stickers = EmptyTable
    /\ now = 0
    /\ resetPc = Idle
    /\ request = NoRequest
    /\ response = NoResponse
    /\ ghost = EmptyTable
    /\ nEvents = 0
    /\ InitRest

\* the gateway delivers events about the guilds in G, at most budget of them
Step(G, SL, budget) ==
    \/ /\ nEvents < budget
       /\ \E bot \in BOOLEAN, g \in G, c \in Contents, st \in SL :
             handleMessageCreate(bot, g, c, st)
    \/ /\ nEvents < budget
       /\ \E g \in G, e \in EmojiIDs \cup {UnicodeEmoji}, n \in Names :
             handleMessageReactionAdd(g, e, n)
    \/ /\ nEvents < budget
       /\ \E g \in G, e \in EmojiIDs \cup {UnicodeEmoji} :
             handleMessageReactionRemove(g, e)
    \/ \E inGuild \in BOOLEAN, g \in G, err1 \in BOOLEAN :
          ResetDeleteEmojis(inGuild, g, err1)
    \/ \E err2 \in BOOLEAN : ResetDeleteStickers(err2)
    \/ Tick

\* every guild, a few events
Next == Step(Servers \cup {NoGuild}, OneSticker, MaxEvents) /\ UNCHANGED <<inflight, cacheVars>>

Spec == Init /\ [][Next]_vars

\* one guild, more events
NextOne == Step({1, NoGuild}, StickerLists, MaxEventsOne) /\ UNCHANGED <<inflight, cacheVars>>

SpecOne == Init /\ [][NextOne]_vars

----------------------------------------------------------------------------
(* The handlers as goroutines: the gateway spawns one goroutine per event,   *)
(* so handlers run concurrently; each call of a store function is one step,  *)
(* and the store may fail any statement.                                     *)

MaxHandlers == 3
Renames == {"foo", "bar"}
ReactionIDs == {1, 2}

\* what a handler has yet to do: one entry per regex match, per sticker, per
\* reaction
PendingCall(op, name, id) == [op |-> op, name |-> name, id |-> id]

\* a statement sent to the store: whether it succeeded, and as which statement
\* of the run
Statement(op, name, id, serverID, ok, seq) ==
    [op |-> op, name |-> name, id |-> id, server |-> serverID, ok |-> ok, seq |-> seq]

Event(type, bot, guildID, content, stks) ==
    [type |-> type, bot |-> bot, guild |-> guildID, content |-> content, stks |-> stks]

NextHandler == CHOOSE h \in 1..(Cardinality(DOMAIN inflight) + 1) : h \notin DOMAIN inflight

Spawn(event, todo) ==
    /\ inflight' = inflight @@
           (NextHandler :> [event |-> event, todo |-> todo, issued |-> <<>>])
    /\ UNCHANGED <<storeVars, cacheVars>>

\* Mutant: the handler without its check of the author.
goMessageCreate_NoBotCheck(bot, guildID, content, stks) ==
    LET matches == customEmojiRegex(content) IN
    Spawn(Event("message", bot, guildID, content, stks),
          IF ~IsValid(guildID) THEN <<>>
          ELSE [i \in 1..Len(matches) |-> PendingCall("match", matches[i].name, matches[i].id)]
               \o [i \in 1..Len(stks) |-> PendingCall("trackSticker", stks[i].name, stks[i].id)])

\* handleMessageCreate up to its first store call: the guards, and the calls
\* processCustomEmojis and processStickers will make
goMessageCreate(bot, guildID, content, stks) ==
    LET matches == customEmojiRegex(content) IN
    Spawn(Event("message", bot, guildID, content, stks),
          IF bot \/ ~IsValid(guildID) THEN <<>>
          ELSE [i \in 1..Len(matches) |-> PendingCall("match", matches[i].name, matches[i].id)]
               \o [i \in 1..Len(stks) |-> PendingCall("trackSticker", stks[i].name, stks[i].id)])

\* Mutant: the handler without its check of the emoji.
goReactionAdd_NoCustomCheck(guildID, emojiID, emojiName) ==
    Spawn(Event("add", FALSE, guildID, <<EmojiSeg(FALSE, emojiName, emojiID)>>, <<>>),
          IF ~IsValid(guildID) THEN <<>>
          ELSE <<PendingCall("trackCustomEmoji", emojiName, emojiID)>>)

\* handleMessageReactionAdd up to its store call
goReactionAdd(guildID, emojiID, emojiName) ==
    Spawn(Event("add", FALSE, guildID, <<EmojiSeg(FALSE, emojiName, emojiID)>>, <<>>),
          IF ~IsValid(guildID) \/ ~IsCustom(emojiID) THEN <<>>
          ELSE <<PendingCall("trackCustomEmoji", emojiName, emojiID)>>)

\* handleMessageReactionRemove up to its store call
goReactionRemove(guildID, emojiID) ==
    Spawn(Event("rem", FALSE, guildID, <<EmojiSeg(FALSE, "", emojiID)>>, <<>>),
          IF ~IsValid(guildID) \/ ~IsCustom(emojiID) THEN <<>>
          ELSE <<PendingCall("decreaseCustomEmoji", "", emojiID)>>)

\* the statements sent so far, by all handlers
Issued == UNION {{inflight[h].issued[i] : i \in 1..Len(inflight[h].issued)} : h \in DOMAIN inflight}

\* Mutant: a store error ends the handler.
Exec_StopOnError(h, ok) ==
    /\ h \in DOMAIN inflight
    /\ inflight[h].todo # <<>>
    /\ LET call == Head(inflight[h].todo)
           serverID == inflight[h].event.guild
           parsed == ParseInt(call.id)
           op == IF call.op = "match" THEN "trackCustomEmoji" ELSE call.op
       IN  IF call.op = "match" /\ parsed.err
           THEN /\ ok
                /\ inflight' = [inflight EXCEPT ![h].todo = Tail(@)]
                /\ UNCHANGED <<emojis, stickers>>
           ELSE /\ inflight' = [inflight EXCEPT
                       ![h].todo = IF ok THEN Tail(@) ELSE <<>>,
                       ![h].issued = Append(@, Statement(op, call.name, call.id, serverID,
                                                         ok, Cardinality(Issued) + 1))]
                /\ emojis' = IF ~ok THEN emojis
                             ELSE IF op = "trackCustomEmoji"
                             THEN trackCustomEmoji(emojis, call.name, call.id, serverID, now)
                             ELSE IF op = "decreaseCustomEmoji"
                             THEN decreaseCustomEmoji(emojis, call.id, serverID)
                             ELSE emojis
                /\ stickers' = IF ok /\ op = "trackSticker"
                               THEN trackSticker(stickers, call.id, call.name, serverID, now)
                               ELSE stickers
    /\ UNCHANGED <<now, resetPc, request, response, ghost, nEvents, cacheVars>>

\* the next store call of handler h: an unparseable match is skipped, any
\* other call sends its statement, which the store runs (ok) or fails
Exec(h, ok) ==
    /\ h \in DOMAIN inflight
    /\ inflight[h].todo # <<>>
    /\ LET call == Head(inflight[h].todo)
           serverID == inflight[h].event.guild
           parsed == ParseInt(call.id)
           op == IF call.op = "match" THEN "trackCustomEmoji" ELSE call.op
       IN  IF call.op = "match" /\ parsed.err
           THEN /\ ok
                /\ inflight' = [inflight EXCEPT ![h].todo = Tail(@)]
                /\ UNCHANGED <<emojis, stickers>>
           ELSE /\ inflight' = [inflight EXCEPT
                       ![h].todo = Tail(@),
                       ![h].issued = Append(@, Statement(op, call.name, call.id, serverID,
                                                         ok, Cardinality(Issued) + 1))]
                /\ emojis' = IF ~ok THEN emojis
                             ELSE IF op = "trackCustomEmoji"
                             THEN trackCustomEmoji(emojis, call.name, call.id, serverID, now)
                             ELSE IF op = "decreaseCustomEmoji"
                             THEN decreaseCustomEmoji(emojis, call.id, serverID)
                             ELSE emojis
                /\ stickers' = IF ok /\ op = "trackSticker"
                               THEN trackSticker(stickers, call.id, call.name, serverID, now)
                               ELSE stickers
    /\ UNCHANGED <<now, resetPc, request, response, ghost, nEvents, cacheVars>>

\* a handler that has returned is forgotten
Retire(h) ==
    /\ h \in DOMAIN inflight
    /\ inflight[h].todo = <<>>
    /\ inflight' = [k \in DOMAIN inflight \ {h} |-> inflight[k]]
    /\ nEvents' = nEvents + 1
    /\ UNCHANGED <<emojis, stickers, now, resetPc, request, response, ghost, cacheVars>>

RaceTick == Tick /\ UNCHANGED <<inflight, cacheVars>>

\* the gateway delivers the events drawn from the given sets, at most maxH of
\* their handlers running at a time
RaceStep(Bots, Gs, Cs, SLs, Es, Oks, maxH) ==
    \/ /\ Cardinality(DOMAIN inflight) < maxH
       /\ \E bot \in Bots, g \in Gs, c \in Cs, st \in SLs : goMessageCreate(bot, g, c, st)
    \/ /\ Cardinality(DOMAIN inflight) < maxH
       /\ \E g \in Gs, e \in Es, n \in Renames : goReactionAdd(g, e, n)
    \/ /\ Cardinality(DOMAIN inflight) < maxH
       /\ \E g \in Gs, e \in Es : goReactionRemove(g, e)
    \/ \E h \in 1..maxH, ok \in Oks : Exec(h, ok)
    \/ RaceTick

\* concurrent handlers about one emoji and one sticker of one guild
NextRace ==
    RaceStep({FALSE}, {1}, {<<>>, <<EmojiSeg(FALSE, "foo", 1)>>}, OneSticker, EmojiIDs,
             {TRUE}, MaxHandlers)

SpecRace == Init /\ [][NextRace]_vars

\* every kind of event, one handler after the other, the store failing at will
NextEvents ==
    \/ RaceStep(BOOLEAN, {1, NoGuild}, Contents, StickerLists, ReactionIDs \cup {UnicodeEmoji},
                BOOLEAN, 1)
    \/ /\ nEvents < MaxEvents
       /\ Retire(1)

SpecEvents == Init /\ [][NextEvents]_vars

----------------------------------------------------------------------------
(* Live-list cache: getGuildEmojis.  The clock counts hours.  A call takes   *)
(* the mutex and checks the cache in one step, and holds the mutex while the *)
(* external fetch is under way.                                              *)

TTL == 24
MaxClock == 36
MaxCalls == 3

\* the emoji lists a guild may have at Discord (by id)
LiveLists == {<<>>, <<1>>}

CachedEmojiList(list, expiresAt) == [Emojis |-> list, ExpiresAt |-> expiresAt]

\* Mutant: an entry that never expires.
Unexpired_Ever(cache, guildID, t) == guildID \in DOMAIN cache

\* cached, ok := emojiCache[guildID]; ok && time.Now().Before(cached.ExpiresAt)
Unexpired(cache, guildID, t) ==
    guildID \in DOMAIN cache /\ t < cache[guildID].ExpiresAt

\* Mutant: a lock that never blocks.
CanLock_Always(mutex) == TRUE

\* emojiCacheMutex.Lock() returns
CanLock(mutex) == mutex = Unlocked

InFlight == {c \in DOMAIN calls : calls[c].pc # "done"}
Entered == {c \in DOMAIN calls : calls[c].pc # "lock"}

\* a handler calls getGuildEmojis(s, guildID) and waits for the mutex
CallGetGuildEmojis(guildID) ==
    /\ Cardinality(DOMAIN calls) < MaxCalls
    /\ calls' = calls @@
           ((Cardinality(DOMAIN calls) + 1) :>
               [guild |-> guildID, pc |-> "lock", ret |-> <<>>, err |-> FALSE, fetches |-> 0,
                with |-> InFlight, ticket |-> 0, doneAt |-> 0])
    /\ UNCHANGED <<storeVars, inflight, emojiCache, emojiCacheMutex, live>>

\* the call takes the mutex and checks the cache: a hit returns the cached
\* list (the deferred Unlock runs), a miss starts s.Emojis(guildID)
Enter(c) ==
    /\ c \in DOMAIN calls
    /\ calls[c].pc = "lock"
    /\ CanLock(emojiCacheMutex)
    /\ LET g == calls[c].guild
           seen == [calls[c] EXCEPT !.ticket = Cardinality(Entered) + 1]
       IN  IF Unexpired(emojiCache, g, now)
           THEN /\ calls' = [calls EXCEPT ![c] = [seen EXCEPT !.pc = "done",
                                                              !.ret = emojiCache[g].Emojis,
                                                              !.doneAt = now]]
                /\ emojiCacheMutex' = Unlocked
           ELSE /\ calls' = [calls EXCEPT ![c] = [seen EXCEPT !.pc = "fetch", !.fetches = @ + 1]]
                /\ emojiCacheMutex' = c
    /\ UNCHANGED <<storeVars, inflight, emojiCache, live>>

\* Mutant: the error return leaves the mutex locked.
FetchReturn_NoUnlock(c, ok) ==
    /\ c \in DOMAIN calls
    /\ calls[c].pc = "fetch"
    /\ LET g == calls[c].guild IN
       IF ok
       THEN /\ emojiCache' = [k \in DOMAIN emojiCache \cup {g} |->
                                 IF k = g THEN CachedEmojiList(live[g], now + TTL)
                                 ELSE emojiCache[k]]
            /\ calls' = [calls EXCEPT ![c].pc = "done", ![c].ret = live[g], ![c].doneAt = now]
            /\ emojiCacheMutex' = Unlocked
       ELSE /\ emojiCache' = emojiCache
            /\ calls' = [calls EXCEPT ![c].pc = "done", ![c].err = TRUE, ![c].doneAt = now]
            /\ emojiCacheMutex' = emojiCacheMutex
    /\ UNCHANGED <<storeVars, inflight, live>>

\* s.Emojis(guildID) returns: on success the entry is stored with
\* ExpiresAt = time.Now().Add(24 * time.Hour); either way the deferred Unlock runs
FetchReturn(c, ok) ==
    /\ c \in DOMAIN calls
    /\ calls[c].pc = "fetch"
    /\ LET g == calls[c].guild IN
       IF ok
       THEN /\ emojiCache' = [k \in DOMAIN emojiCache \cup {g} |->
                                 IF k = g THEN CachedEmojiList(live[g], now + TTL)
                                 ELSE emojiCache[k]]
            /\ calls' = [calls EXCEPT ![c].pc = "done", ![c].ret = live[g], ![c].doneAt = now]
       ELSE /\ emojiCache' = emojiCache
            /\ calls' = [calls EXCEPT ![c].pc = "done", ![c].err = TRUE, ![c].doneAt = now]
    /\ emojiCacheMutex' = Unlocked
    /\ UNCHANGED <<storeVars, inflight, live>>

\* the guild's emojis change at Discord
EmojisUpdate(guildID, list) ==
    /\ list # live[guildID]
    /\ live' = [live EXCEPT ![guildID] = list]
    /\ UNCHANGED <<storeVars, inflight, emojiCache, emojiCacheMutex, calls>>

\* half a TTL passes
Pass ==
    /\ now + TTL \div 2 <= MaxClock
    /\ now' = now + TTL \div 2
    /\ UNCHANGED <<emojis, stickers, resetPc, request, response, ghost, nEvents,
                   inflight, cacheVars>>

NextCache ==
    \/ \E g \in Servers : CallGetGuildEmojis(g)
    \/ \E c \in 1..MaxCalls : Enter(c)
    \/ \E c \in 1..MaxCalls, ok \in BOOLEAN : FetchReturn(c, ok)
    \/ \E list \in LiveLists : EmojisUpdate(1, list)
    \/ Pass

SpecCache == Init /\ [][NextCache]_vars

----------------------------------------------------------------------------
(* Strings: a Go string is the sequence of its characters *)

Digits == <<"0", "1", "2", "3", "4", "5", "6", "7", "8", "9">>

DigitVal(c) == CHOOSE d \in 0..9 : Digits[d + 1] = c
IsDigit(c) == \E d \in 0..9 : Digits[d + 1] = c

\* Mutant: a conversion that keeps only the last digit.
NatToStr_LastDigit(n) == <<Digits[(n % 10) + 1]>>

RECURSIVE NatToStr(_)
NatToStr(n) ==
    IF n < 10 THEN <<Digits[n + 1]>>
    ELSE Append(NatToStr(n \div 10), Digits[(n % 10) + 1])

\* strconv.Itoa, and the verb %d of fmt.Sprintf
Itoa(n) == IF n < 0 THEN <<"-">> \o NatToStr(-n) ELSE NatToStr(n)

RECURSIVE StrToNat(_)
StrToNat(str) ==
    IF Len(str) = 1 THEN DigitVal(str[1])
    ELSE 10 * StrToNat(SubSeq(str, 1, Len(str) - 1)) + DigitVal(str[Len(str)])

\* strconv.Atoi: an optional sign, then one or more decimal digits
Atoi(str) ==
    LET signed == Len(str) > 0 /\ str[1] \in {"+", "-"}
        body == IF signed THEN Tail(str) ELSE str
    IN  IF Len(body) = 0 \/ \E i \in 1..Len(body) : ~IsDigit(body[i])
        THEN [err |-> TRUE, val |-> 0]
        ELSE [err |-> FALSE,
              val |-> IF signed /\ str[1] = "-" THEN -StrToNat(body) ELSE StrToNat(body)]

\* strings.Split(str, ":")
RECURSIVE Split(_)
Split(str) ==
    IF \A i \in 1..Len(str) : str[i] # ":"
    THEN <<str>>
    ELSE LET i == CHOOSE j \in 1..Len(str) :
                      str[j] = ":" /\ \A l \in 1..(j - 1) : str[l] # ":"
         IN  <<SubSeq(str, 1, i - 1)>> \o Split(SubSeq(str, i + 1, Len(str)))

\* strings.HasPrefix
HasPrefix(str, prefix) ==
    Len(str) >= Len(prefix) /\ SubSeq(str, 1, Len(prefix)) = prefix

EmojiPage == <<"e", "m", "o", "j", "i", "_", "p", "a", "g", "e">>
StickerPage == <<"s", "t", "i", "c", "k", "e", "r", "_", "p", "a", "g", "e">>
Jump == <<"j", "u", "m", "p">>
Colon == <<":">>

\* fmt.Sprintf("%s:%d", customIDPrefix, n)
PageID(customIDPrefix, n) == customIDPrefix \o Colon \o Itoa(n)

\* fmt.Sprintf("%s:%d:jump", customIDPrefix, n)
JumpID(customIDPrefix, n) == customIDPrefix \o Colon \o Itoa(n) \o Colon \o Jump

----------------------------------------------------------------------------
(* Pagination engine *)

EmojiPerPage == 25
StickerPerPage == 5

Button(customID, label) == [CustomID |-> customID, Label |-> label]

\* Mutant: ">>" goes 10 pages on without the cap at the last page.
createPaginationButtons_NoCap(page, totalPages, customIDPrefix) ==
    (IF page > 1
     THEN <<Button(PageID(customIDPrefix, Max(page - 10, 0)), <<"<", "<">>)>> ELSE <<>>)
    \o (IF page > 0
        THEN <<Button(PageID(customIDPrefix, page - 1), <<"<">>)>> ELSE <<>>)
    \o <<Button(JumpID(customIDPrefix, page), Itoa(page + 1) \o <<"/">> \o Itoa(totalPages))>>
    \o (IF page < totalPages - 1
        THEN <<Button(PageID(customIDPrefix, page + 1), <<">">>)>> ELSE <<>>)
    \o (IF page < totalPages - 2
        THEN <<Button(PageID(customIDPrefix, page + 10), <<">", ">">>)>>
        ELSE <<>>)

\* the row of buttons under a list: "<<", "<", the page indicator, ">", ">>"
createPaginationButtons(page, totalPages, customIDPrefix) ==
    (IF page > 1
     THEN <<Button(PageID(customIDPrefix, Max(page - 10, 0)), <<"<", "<">>)>> ELSE <<>>)
    \o (IF page > 0
        THEN <<Button(PageID(customIDPrefix, page - 1), <<"<">>)>> ELSE <<>>)
    \o <<Button(JumpID(customIDPrefix, page), Itoa(page + 1) \o <<"/">> \o Itoa(totalPages))>>
    \o (IF page < totalPages - 1
        THEN <<Button(PageID(customIDPrefix, page + 1), <<">">>)>> ELSE <<>>)
    \o (IF page < totalPages - 2
        THEN <<Button(PageID(customIDPrefix, Min(page + 10, totalPages - 1)), <<">", ">">>)>>
        ELSE <<>>)

\* the modal that asks for a page, pre-filled with page + 1
createPageJumpModalResponse(customId, page) ==
    [type |-> "modal", CustomID |-> customId, Value |-> Itoa(page + 1)]

\* the first perPage of the rows fetched, and the buttons
createEmojiListMessage(rows, page, totalPages) ==
    [type |-> "list", kind |-> "emoji",
     rows |-> SubSeq(rows, 1, Min(EmojiPerPage, Len(rows))),
     page |-> page, totalPages |-> totalPages,
     components |-> createPaginationButtons(page, totalPages, EmojiPage)]

createStickerListMessage(rows, page, totalPages) ==
    [type |-> "list", kind |-> "sticker",
     rows |-> SubSeq(rows, 1, Min(StickerPerPage, Len(rows))),
     page |-> page, totalPages |-> totalPages,
     components |-> createPaginationButtons(page, totalPages, StickerPage)]

respondError(message) == [type |-> "error", text |-> message]

----------------------------------------------------------------------------
(* Counter store: the queries *)

\* SELECT COUNT(*) FROM emojis WHERE server_id = ?
countEmojis(serverID) == Cardinality({k \in DOMAIN emojis : k[1] = serverID})

\* SELECT COUNT(*) FROM stickers WHERE server_id = ?
countStickers(serverID) == Cardinality({k \in DOMAIN stickers : k[1] = serverID})

\* ORDER BY usage_count DESC, last_used DESC: a before b
Before(a, b) ==
    \/ a.usage_count > b.usage_count
    \/ a.usage_count = b.usage_count /\ a.last_used > b.last_used

\* q, a sequence of keys in ORDER BY order, with key k put at any place that
\* keeps the order
Inserts(tbl, q, k) ==
    LET lo == Cardinality({j \in 1..Len(q) : Before(tbl[q[j]], tbl[k])})
        hi == Len(q) - Cardinality({j \in 1..Len(q) : Before(tbl[k], tbl[q[j]])})
    IN  {SubSeq(q, 1, i) \o <<k>> \o SubSeq(q, i + 1, Len(q)) : i \in lo..hi}

\* every order the ORDER BY allows for the rows of keys: rows that it does not
\* separate come in any order
RECURSIVE Ordered(_, _)
Ordered(tbl, keys) ==
    IF keys = {} THEN {<<>>}
    ELSE LET k == CHOOSE x \in keys : TRUE
         IN  UNION {Inserts(tbl, q, k) : q \in Ordered(tbl, keys \ {k})}

\* LIMIT ? OFFSET ? (a negative OFFSET counts as 0)
Page(ordered, offset, limit) ==
    SubSeq(ordered, Max(offset, 0) + 1, Min(Max(offset, 0) + limit, Len(ordered)))

Data(tbl, k) ==
    [Name |-> tbl[k].name, ID |-> k[2], Count |-> tbl[k].usage_count,
     LastUsed |-> tbl[k].last_used]

\* SELECT ... WHERE server_id = ? ORDER BY usage_count DESC, last_used DESC
\*   LIMIT ? OFFSET ?: the results the statement may give
PagedRead(tbl, serverID, offset, limit) ==
    LET keys == {k \in DOMAIN tbl : k[1] = serverID}
    IN  {[i \in 1..Len(q) |-> Data(tbl, q[i])] :
            q \in {Page(o, offset, limit) : o \in Ordered(tbl, keys)}}

getEmojis(serverID, offset, limit) == PagedRead(emojis, serverID, offset, limit)

getStickers(serverID, offset, limit) == PagedRead(stickers, serverID, offset, limit)

----------------------------------------------------------------------------
(* Command dispatcher: the list commands, the buttons and the jump modal.     *)
(* The store answers every query.                                             *)

\* the response, sent as a new message or as an update of the message clicked
Sent(data, how, ephemeral) == data @@ [how |-> how, ephemeral |-> ephemeral]

\* /listemotes
handleListEmotes(inGuild, guildID, share) ==
    /\ request' = [type |-> "listemotes", guild |-> guildID]
    /\ IF ~(inGuild /\ IsValid(guildID))
       THEN response' = respondError("This command can only be used in a server.")
       ELSE LET totalEmojis == countEmojis(guildID) IN
            \E rows \in getEmojis(guildID, 0, EmojiPerPage) :
                response' = IF Len(rows) = 0
                            THEN respondError("No emoji data found for this server.")
                            ELSE Sent(createEmojiListMessage(rows, 0, totalEmojis \div EmojiPerPage + 1),
                                      "message", ~share)
    /\ UNCHANGED <<emojis, stickers, now, resetPc, ghost, nEvents>>

\* /liststickers
handleListStickers(inGuild, guildID, share) ==
    /\ request' = [type |-> "liststickers", guild |-> guildID]
    /\ IF ~(inGuild /\ IsValid(guildID))
       THEN response' = respondError("This command can only be used in a server.")
       ELSE LET totalStickers == countStickers(guildID) IN
            \E rows \in getStickers(guildID, 0, StickerPerPage) :
                response' = IF Len(rows) = 0
                            THEN respondError("No sticker data found for this server.")
                            ELSE Sent(createStickerListMessage(rows, 0, totalStickers \div StickerPerPage + 1),
                                      "message", ~share)
    /\ UNCHANGED <<emojis, stickers, now, resetPc, ghost, nEvents>>

\* what handleButtonInteraction answers to a click on the button customID:
\* the set of responses it may send, NoResponse when it returns without one
ButtonResponses(guildID, customID) ==
    LET parts == Split(customID) IN
    IF Len(parts) < 2 THEN {NoResponse}
    ELSE LET parsed == Atoi(parts[2])
             page == parsed.val
         IN
         IF parsed.err THEN {NoResponse}
         ELSE IF Len(parts) > 2 /\ parts[3] = Jump
         THEN {createPageJumpModalResponse(customID, page)}
         ELSE IF HasPrefix(customID, EmojiPage \o Colon)
         THEN LET totalEmojis == countEmojis(guildID) IN
              {Sent(createEmojiListMessage(rows, page, totalEmojis \div EmojiPerPage + 1),
                    "update", TRUE) :
                  rows \in getEmojis(guildID, EmojiPerPage * page, EmojiPerPage)}
         ELSE IF HasPrefix(customID, StickerPage \o Colon)
         THEN LET totalStickers == countStickers(guildID) IN
              {Sent(createStickerListMessage(rows, page, totalStickers \div StickerPerPage + 1),
                    "update", TRUE) :
                  rows \in getStickers(guildID, StickerPerPage * page, StickerPerPage)}
         ELSE {NoResponse}

\* a click on any button: one of a message sent long ago, or a made-up one
handleButtonInteraction(guildID, customID) ==
    /\ request' = [type |-> "button", guild |-> guildID, customID |-> customID,
                   from |-> NoResponse, label |-> <<>>]
    /\ response' \in ButtonResponses(guildID, customID)
    /\ UNCHANGED <<emojis, stickers, now, resetPc, ghost, nEvents>>

\* a click on a button of the list just rendered
ClickRendered(guildID, i) ==
    /\ response.type = "list"
    /\ i \in 1..Len(response.components)
    /\ request' = [type |-> "button", guild |-> guildID,
                   customID |-> response.components[i].CustomID,
                   from |-> [type |-> "list", kind |-> response.kind, page |-> response.page,
                             totalPages |-> response.totalPages],
                   label |-> response.components[i].Label]
    /\ response' \in ButtonResponses(guildID, response.components[i].CustomID)
    /\ UNCHANGED <<emojis, stickers, now, resetPc, ghost, nEvents>>

\* what handlePageJumpInteraction answers to the modal customID submitted with value
JumpResponses(guildID, customID, value) ==
    LET parsed == Atoi(value)
        pageNum == parsed.val - 1
        totalPages == countEmojis(guildID) \div EmojiPerPage + 1
    IN
    IF parsed.err THEN {NoResponse}
    ELSE IF pageNum < 0 \/ pageNum > totalPages - 1 THEN {NoResponse}
    ELSE IF HasPrefix(customID, EmojiPage \o Colon)
    THEN LET totalEmojis == countEmojis(guildID) IN
         {Sent(createEmojiListMessage(rows, pageNum, totalEmojis \div EmojiPerPage + 1),
               "update", TRUE) :
             rows \in getEmojis(guildID, EmojiPerPage * pageNum, EmojiPerPage)}
    ELSE IF HasPrefix(customID, StickerPage \o Colon)
    THEN LET totalStickers == countStickers(guildID) IN
         {Sent(createStickerListMessage(rows, pageNum, totalStickers \div StickerPerPage + 1),
               "update", TRUE) :
             rows \in getStickers(guildID, StickerPerPage * pageNum, StickerPerPage)}
    ELSE {NoResponse}

\* the jump modal submitted
handlePageJumpInteraction(guildID, customID, value) ==
    /\ request' = [type |-> "modal", guild |-> guildID, customID |-> customID,
                   value |-> value]
    /\ response' \in JumpResponses(guildID, customID, value)
    /\ UNCHANGED <<emojis, stickers, now, resetPc, ghost, nEvents>>

----------------------------------------------------------------------------
(* The pagination handlers over a populated store *)

MaxEmojiRows == 26
MaxStickerRows == 11
BigStickerRows == 56
MaxTokenPage == 12
MaxJumpValue == 4

\* a table of one guild with n rows; item i was touched i times
Populated(n) ==
    [k \in {1} \X (1..n) |->
        [name |-> "foo", usage_count |-> k[2], first_used |-> 0, last_used |-> 0]]

PopulatedGhost(kind, n) ==
    [key \in {kind} \X {1} \X (1..n) |->
        [n |-> key[3], first |-> 0, last |-> 0, pure |-> TRUE, fold |-> key[3],
         scen |-> IF kind = "emoji" /\ key[3] <= 3 THEN key[3] ELSE -1, floored |-> FALSE]]

InitPage ==
    /\ \E n \in 0..MaxEmojiRows : emojis = Populated(n)
    /\ \E m \in (0..MaxStickerRows) \cup {BigStickerRows} : stickers = Populated(m)
    /\ (DOMAIN emojis = {} \/ DOMAIN stickers = {})
    /\ now = 0
    /\ resetPc = Idle
    /\ request = NoRequest
    /\ response = NoResponse
    /\ ghost = PopulatedGhost("emoji", Cardinality(DOMAIN emojis))
                  @@ PopulatedGhost("sticker", Cardinality(DOMAIN stickers))
    /\ nEvents = 0
    /\ InitRest

Prefixes == {EmojiPage, StickerPage}

\* tokens of buttons rendered at some time, for pages that may be gone by now
StaleTokens ==
    {PageID(prefix, p) : prefix \in Prefixes, p \in {-MaxTokenPage, -1} \cup 0..MaxTokenPage}
    \cup {JumpID(prefix, p) : prefix \in Prefixes, p \in {0, MaxTokenPage}}

\* tokens that are not prefix:pageIndex or prefix:pageIndex:jump
InvalidTokens ==
    UNION {{ prefix,
             prefix \o Colon,
             prefix \o Colon \o <<"x">>,
             prefix \o Colon \o <<"1", "x">>,
             PageID(prefix, 1) \o Colon \o <<"f", "o", "o">>,
             JumpID(prefix, 1) \o Colon \o <<"x">>,
             PageID(prefix, 1) \o Colon \o <<"x">> \o Colon \o Jump } : prefix \in Prefixes}
    \cup {PageID(<<"o", "t", "h", "e", "r">>, 1)}

JumpValues == {Itoa(v) : v \in -1..MaxJumpValue} \cup {<<>>, <<"x">>, <<"+", "2">>}

ModalIDs == {JumpID(prefix, 0) : prefix \in Prefixes} \cup {JumpID(<<"o", "t", "h", "e", "r">>, 0)}

PageStep ==
    \/ \E inGuild \in BOOLEAN, g \in {1, NoGuild}, share \in BOOLEAN :
          handleListEmotes(inGuild, g, share)
    \/ \E inGuild \in BOOLEAN, g \in {1, NoGuild}, share \in BOOLEAN :
          handleListStickers(inGuild, g, share)
    \/ \E token \in StaleTokens \cup InvalidTokens : handleButtonInteraction(1, token)
    \/ \E i \in 1..5 : ClickRendered(1, i)
    \/ \E id \in ModalIDs, value \in JumpValues : handlePageJumpInteraction(1, id, value)

NextPage == PageStep /\ UNCHANGED <<inflight, cacheVars>>

SpecPage == InitPage /\ [][NextPage]_vars

----------------------------------------------------------------------------
(* Interaction events: the dispatcher by interaction type *)

\* i.Message: the message the component sits on, with what it holds, or nil
NoMessage == [nil |-> TRUE, content |-> <<>>, stks |-> <<>>]
Embedded(content, stks) == [nil |-> FALSE, content |-> content, stks |-> stks]

EmbeddedMessages ==
    {NoMessage,
     Embedded(<<TextSeg, EmojiSeg(FALSE, "foo", 1)>>, <<>>),
     Embedded(<<>>, <<StickerItem(1)>>)}

\* handleInteractionCreate: the switch on the interaction type, and nothing
\* else; its goroutine has no store call to make
handleInteractionCreate(guildID, itype, name, customID, value, message) ==
    /\ \/ /\ itype = "command" /\ name = "listemotes"
          /\ \E share \in BOOLEAN : handleListEmotes(TRUE, guildID, share)
       \/ /\ itype = "command" /\ name = "liststickers"
          /\ \E share \in BOOLEAN : handleListStickers(TRUE, guildID, share)
       \/ /\ itype = "component"
          /\ handleButtonInteraction(guildID, customID)
       \/ /\ itype = "modal"
          /\ handlePageJumpInteraction(guildID, customID, value)
    /\ inflight' = (1 :> [event |-> Event("interaction", FALSE, guildID,
                                          message.content, message.stks),
                          todo |-> <<>>, issued |-> <<>>])
    /\ UNCHANGED cacheVars

NextInteraction ==
    \/ \E g \in {1, NoGuild}, name \in {"listemotes", "liststickers"} :
          handleInteractionCreate(g, "command", name, <<>>, <<>>, NoMessage)
    \/ \E g \in {1, NoGuild}, token \in StaleTokens \cup InvalidTokens,
          message \in EmbeddedMessages :
          handleInteractionCreate(g, "component", "", token, <<>>, message)
    \/ \E g \in {1, NoGuild}, id \in ModalIDs, value \in JumpValues,
          message \in EmbeddedMessages :
          handleInteractionCreate(g, "modal", "", id, value, message)

\* guild 1 has two emoji rows and a sticker row
InitInteraction ==
    /\ emojis = Populated(2)
    /\ stickers = Populated(1)
    /\ now = 0
    /\ resetPc = Idle
    /\ request = NoRequest
    /\ response = NoResponse
    /\ ghost = PopulatedGhost("emoji", 2) @@ PopulatedGhost("sticker", 1)
    /\ nEvents = 0
    /\ InitRest

SpecInteraction == InitInteraction /\ [][NextInteraction]_vars

-----------------------------------------------------------------------------
(* The least-used command: the tracked emojis of the guild's cached list *)

\* ORDER BY usage_count ASC, last_used ASC puts row a before row b
Earlier(a, b) ==
    \/ a.usage_count < b.usage_count
    \/ a.usage_count = b.usage_count /\ a.last_used < b.last_used

\* q, a sequence of keys in ascending order, with key k put at any place that
\* keeps the order
InsertsAsc(tbl, q, k) ==
    LET lo == Cardinality({j \in 1..Len(q) : Earlier(tbl[q[j]], tbl[k])})
        hi == Len(q) - Cardinality({j \in 1..Len(q) : Earlier(tbl[k], tbl[q[j]])})
    IN  {SubSeq(q, 1, i) \o <<k>> \o SubSeq(q, i + 1, Len(q)) : i \in lo..hi}

RECURSIVE OrderedAsc(_, _)
OrderedAsc(tbl, keys) ==
    IF keys = {} THEN {<<>>}
    ELSE LET k == CHOOSE x \in keys : TRUE
         IN  UNION {InsertsAsc(tbl, q, k) : q \in OrderedAsc(tbl, keys \ {k})}

\* the ids of a list of guild emojis
IDs(list) == {list[i] : i \in 1..Len(list)}

LeastUsedLimit == 25

\* Mutant: the query without its IN (...) clause
LeastUsedKeys_NoFilter(tbl, serverID, liveEmojis) ==
    {k \in DOMAIN tbl : k[1] = serverID}

\* WHERE server_id = ? AND emote_id IN (?,...), one ? per emoji of liveEmojis
LeastUsedKeys(tbl, serverID, liveEmojis) ==
    {k \in DOMAIN tbl : k[1] = serverID /\ k[2] \in IDs(liveEmojis)}

\* the results the least-used query may give
LeastUsedRead(tbl, serverID, liveEmojis) ==
    {[i \in 1..Len(q) |-> Data(tbl, q[i])] :
        q \in {Page(o, 0, LeastUsedLimit) :
                  o \in OrderedAsc(tbl, LeastUsedKeys(tbl, serverID, liveEmojis))}}

\* handleListLeastUsed outside a guild
ListLeastUsedOutside ==
    /\ request' = [type |-> "listleastused", guild |-> NoGuild, call |-> 0]
    /\ response' = Sent(respondError("This command can only be used in a server."),
                        "new", TRUE)
    /\ UNCHANGED <<emojis, stickers, now, resetPc, ghost, nEvents, inflight, cacheVars>>

\* handleListLeastUsed from the return of its call c of getGuildEmojis on;
\* queryOk: the query succeeds
handleListLeastUsed(c, queryOk) ==
    /\ c \in DOMAIN calls
    /\ calls[c].pc = "done"
    /\ request' = [type |-> "listleastused", guild |-> calls[c].guild, call |-> c]
    /\ IF calls[c].err
       THEN response' = Sent(respondError("Failed to fetch guild emojis."), "new", TRUE)
       ELSE IF Len(calls[c].ret) = 0
       THEN response' = Sent(respondError("No custom emojis found in this server."),
                             "new", TRUE)
       ELSE IF ~queryOk
       THEN response' = Sent(respondError("Failed to fetch usage data."), "new", TRUE)
       ELSE \E rows \in LeastUsedRead(emojis, calls[c].guild, calls[c].ret) :
               response' = Sent([type |-> "leastused", rows |-> rows], "new", TRUE)
    /\ UNCHANGED <<emojis, stickers, now, resetPc, ghost, nEvents, inflight, cacheVars>>

MaxLeastRows == 27

\* a tracked emoji: emojis 1 and 2 tie, 3 and 4 differ in last_used only
LeastRow(i) ==
    [name |-> "foo",
     usage_count |-> IF i <= 2 THEN 1 ELSE IF i <= 4 THEN 3 ELSE i,
     first_used |-> 0,
     last_used |-> IF i = 3 THEN 1 ELSE 0]

\* n tracked emojis of guild 1 and two of guild 2
LeastTable(n) ==
    [k \in ({1} \X (1..n)) \cup ({2} \X (1..2)) |-> LeastRow(k[2])]

LeastGhost(n) ==
    [key \in ({"emoji"} \X {1} \X (1..n)) \cup ({"emoji"} \X {2} \X (1..2)) |->
        [n |-> LeastRow(key[3]).usage_count, first |-> 0,
         last |-> LeastRow(key[3]).last_used, pure |-> TRUE,
         fold |-> LeastRow(key[3]).usage_count, scen |-> -1, floored |-> FALSE]]

\* the guild emoji lists that follow the empty one: an unordered one with an
\* untracked emoji, and all tracked ones but the first with an untracked one
LeastLists ==
    {<<4, 2, 1, 3, MaxLeastRows + 2>>, [i \in 1..MaxLeastRows |-> i + 1]}

InitLeast ==
    /\ \E n \in {0, MaxLeastRows} :
          /\ emojis = LeastTable(n)
          /\ ghost = LeastGhost(n)
    /\ stickers = EmptyTable
    /\ now = 0
    /\ resetPc = Idle
    /\ request = NoRequest
    /\ response = NoResponse
    /\ nEvents = 0
    /\ InitRest

MaxLeastCalls == 2

\* the command in guild 1, one at a time, while the guild's emoji list changes
\* and time passes
NextLeast ==
    \/ InFlight = {} /\ Cardinality(DOMAIN calls) < MaxLeastCalls /\ CallGetGuildEmojis(1)
    \/ \E c \in 1..MaxLeastCalls : Enter(c)
    \/ \E c \in 1..MaxLeastCalls, ok \in BOOLEAN : FetchReturn(c, ok)
    \/ \E list \in LeastLists : EmojisUpdate(1, list)
    \/ Pass
    \/ ListLeastUsedOutside
    \/ \E c \in 1..MaxLeastCalls, queryOk \in BOOLEAN : handleListLeastUsed(c, queryOk)

SpecLeast == InitLeast /\ [][NextLeast]_vars

----------------------------------------------------------------------------
(* Properties of the counter store *)

Table(kind) == IF kind = "emoji" THEN emojis ELSE stickers

\* C1: after N >= 1 upsert touches and nothing else on a fresh pair of either
\* kind, the row exists with usage_count = N, first_used = the time of the
\* first touch and last_used = the time of the N-th touch.
C1_TouchCounts ==
    \A key \in DOMAIN ghost :
        LET h == ghost[key]
            k == <<key[2], key[3]>>
        IN  (h.pure /\ h.n >= 1) =>
                /\ k \in DOMAIN Table(key[1])
                /\ Table(key[1])[k].usage_count = h.n
                /\ Table(key[1])[k].first_used = h.first
                /\ Table(key[1])[k].last_used = h.last

\* three touches of an emoji and two of a sticker, the last later than the first
C1_Witness ==
    /\ \E key \in DOMAIN ghost :
          /\ key[1] = "emoji" /\ ghost[key].pure /\ ghost[key].n = 3
          /\ ghost[key].first < ghost[key].last
          /\ emojis[<<key[2], key[3]>>].usage_count = 3
    /\ \E key \in DOMAIN ghost :
          /\ key[1] = "sticker" /\ ghost[key].pure /\ ghost[key].n >= 2
          /\ ghost[key].first < ghost[key].last

\* C2: every row of both tables has usage_count >= 0, whatever touches and
\* decrements were issued.
C2_NonNegative ==
    /\ \A k \in DOMAIN emojis : emojis[k].usage_count >= 0
    /\ \A k \in DOMAIN stickers : stickers[k].usage_count >= 0

\* a decrement was issued on a row whose count was already 0
C2_Witness ==
    \E key \in DOMAIN ghost :
        /\ key[1] = "emoji" /\ ghost[key].floored
        /\ <<key[2], key[3]>> \in DOMAIN emojis
        /\ emojis[<<key[2], key[3]>>].usage_count = 0

\* C3: the usage_count of an emoji is the fold of the guild events about it:
\* +1 per message reference and per reaction-add (the row starts at 1),
\* max(0, c - 1) per reaction-remove; three posts, a reaction-add and a
\* reaction-remove in that order give 3.
C3_CountIsFold ==
    /\ \A key \in DOMAIN ghost :
          key[1] = "emoji" =>
              LET k == <<key[2], key[3]>> IN
              /\ k \in DOMAIN emojis => emojis[k].usage_count = ghost[key].fold
              /\ k \notin DOMAIN emojis => ghost[key].fold = 0
              /\ ghost[key].scen = Len(Scenario) =>
                     k \in DOMAIN emojis /\ emojis[k].usage_count = 3
    /\ \A k \in DOMAIN emojis : <<"emoji", k[1], k[2]>> \in DOMAIN ghost

\* the scenario has run on one emoji
C3_Witness ==
    \E key \in DOMAIN ghost :
        /\ key[1] = "emoji" /\ ghost[key].scen = Len(Scenario)
        /\ emojis[<<key[2], key[3]>>].usage_count = 3

NoRowsOf(tbl, serverID) == \A k \in DOMAIN tbl : k[1] # serverID

OthersKept(old, new, serverID) ==
    /\ DOMAIN new \subseteq DOMAIN old
    /\ \A k \in DOMAIN old : k[1] # serverID => k \in DOMAIN new /\ new[k] = old[k]

\* C4: each DELETE of a reset for server S that succeeds removes every row of
\* S from its table and changes no row of any other server and nothing in the
\* other table; a reset answered with the confirmation ran both.
C4_ResetFrame ==
    [][ /\ (resetPc.stage = "idle" /\ resetPc'.stage = "emojisDone" /\ ~resetPc'.err1) =>
              /\ NoRowsOf(emojis', resetPc'.server)
              /\ OthersKept(emojis, emojis', resetPc'.server)
              /\ stickers' = stickers
        /\ (resetPc.stage = "emojisDone" /\ response'.type = "resetOk") =>
              /\ ~resetPc.err1
              /\ NoRowsOf(stickers', resetPc.server)
              /\ OthersKept(stickers, stickers', resetPc.server)
              /\ emojis' = emojis
      ]_vars

\* a confirmed reset of a server that had rows of both kinds, while another
\* server still has rows of both kinds
C4_Witness ==
    /\ response.type = "resetOk"
    /\ request.hadEmojis /\ request.hadStickers
    /\ NoRowsOf(emojis, request.server) /\ NoRowsOf(stickers, request.server)
    /\ \E k \in DOMAIN emojis : k[1] # request.server
    /\ \E k \in DOMAIN stickers : k[1] # request.server

----------------------------------------------------------------------------
(* Properties of the pagination handlers *)

KindOf(customID) ==
    IF HasPrefix(customID, EmojiPage \o Colon) THEN "emoji"
    ELSE IF HasPrefix(customID, StickerPage \o Colon) THEN "sticker"
    ELSE "none"

PrefixOf(kind) == IF kind = "emoji" THEN EmojiPage ELSE StickerPage

RowCount(kind, serverID) ==
    IF kind = "emoji" THEN countEmojis(serverID) ELSE countStickers(serverID)

PerPage(kind) == IF kind = "emoji" THEN EmojiPerPage ELSE StickerPerPage

CeilDiv(c, size) == (c + size - 1) \div size

\* C5: the totalPages a list is rendered with is max(1, ceil(c / s)) for the
\* c rows of its kind and the kind's page size s.
C5_TotalPagesIsCeil ==
    response.type = "list" =>
        response.totalPages =
            Max(1, CeilDiv(RowCount(response.kind, request.guild), PerPage(response.kind)))

\* C6: every list is rendered with a page index within [0, totalPages - 1].
C6_PageInRange ==
    response.type = "list" =>
        0 <= response.page /\ response.page <= response.totalPages - 1

Labels(buttons) == {buttons[i].Label : i \in 1..Len(buttons)}

\* the button labelled label targets a page of 0..totalPages-1 other than `other`
TargetsInRangeNot(buttons, prefix, label, totalPages, other) ==
    \A i \in 1..Len(buttons) :
        buttons[i].Label = label =>
            \E t \in 0..(totalPages - 1) :
                t # other /\ buttons[i].CustomID = PageID(prefix, t)

\* C7: no "<" at page 0, no ">" at page totalPages-1, and "<<" and ">>" only
\* with a target within [0, totalPages-1] that is not the target of "<" or ">".
C7_Controls ==
    response.type = "list" =>
        LET b == response.components
            prefix == PrefixOf(response.kind)
        IN  /\ response.page = 0 => <<"<">> \notin Labels(b)
            /\ response.page = response.totalPages - 1 => <<">">> \notin Labels(b)
            /\ TargetsInRangeNot(b, prefix, <<"<", "<">>, response.totalPages, response.page - 1)
            /\ TargetsInRangeNot(b, prefix, <<">", ">">>, response.totalPages, response.page + 1)

\* the page a button of a list rendered at page of totalPages is meant for
TargetOf(label, page, totalPages) ==
    IF label = <<"<", "<">> THEN Max(page - 10, 0)
    ELSE IF label = <<"<">> THEN page - 1
    ELSE IF label = <<">">> THEN page + 1
    ELSE IF label = <<">", ">">> THEN Min(page + 10, totalPages - 1)
    ELSE page

IsNav(label) == label \in {<<"<", "<">>, <<"<">>, <<">">>, <<">", ">">>}

\* C8: a click on a rendered button for page p >= 0 of a kind is answered with
\* page p of that kind; a click on the page indicator of page p is answered
\* with the jump modal of page p (its token, pre-filled with p + 1).
C8_RoundTrip ==
    (request.type = "button" /\ request.from.type = "list") =>
        LET p == TargetOf(request.label, request.from.page, request.from.totalPages) IN
        p >= 0 =>
            IF IsNav(request.label)
            THEN /\ response.type = "list"
                 /\ response.kind = request.from.kind
                 /\ response.page = p
            ELSE /\ response.type = "modal"
                 /\ KindOf(response.CustomID) = request.from.kind
                 /\ Atoi(response.Value) = [err |-> FALSE, val |-> p + 1]

\* a rendered button for a page of two digits, within range, was clicked
C8_Witness ==
    /\ request.type = "button" /\ request.from.type = "list"
    /\ IsNav(request.label)
    /\ response.type = "list" /\ response.page >= 10
    /\ response.page <= response.totalPages - 1

\* a token that is neither prefix:pageIndex nor prefix:pageIndex:jump
Invalid(customID) ==
    LET parts == Split(customID) IN
    \/ Len(parts) \notin {2, 3}
    \/ Atoi(parts[2]).err
    \/ Len(parts) = 3 /\ parts[3] # Jump

C10_JumpInRange ==
    (request.type = "modal" /\ KindOf(request.customID) # "none") =>
        LET k == KindOf(request.customID)
            parsed == Atoi(request.value)
            totalPages == RowCount(k, request.guild) \div PerPage(k) + 1
            inRange == ~parsed.err /\ 0 <= parsed.val - 1 /\ parsed.val - 1 <= totalPages - 1
        IN  IF inRange
            THEN /\ response.type = "list"
                 /\ response.kind = k
                 /\ response.page = parsed.val - 1
            ELSE response = NoResponse

\* C11: a request for page 5 of a list of one page (totalPages = 1) is
\* answered with no rows and with the page indicator as the only control.
C11_LonePageControls ==
    (response.type = "list" /\ response.page = 5 /\ response.totalPages = 1) =>
        /\ response.rows = <<>>
        /\ Len(response.components) = 1
        /\ response.components[1].CustomID = JumpID(PrefixOf(response.kind), 5)

----------------------------------------------------------------------------
(* Properties of the concurrent handlers *)

\* the statements op on the pair <<serverID, id>> that the store has run
Ran(op, serverID, id) ==
    {st \in Issued : st.op = op /\ st.server = serverID /\ st.id = id /\ st.ok}

\* the row of pair k exists iff n > 0, and then counts n
CountsExactly(tbl, k, n) ==
    IF n = 0 THEN k \notin DOMAIN tbl
    ELSE k \in DOMAIN tbl /\ tbl[k].usage_count = n

\* C14: however the upsert touches of concurrent handlers on a pair that had
\* no row interleave, the pair has one row and its usage_count is the number
\* of touches (while no decrement was issued on it).
C14_NoLostTouch ==
    /\ \A k \in Servers \X ReactionIDs :
          Ran("decreaseCustomEmoji", k[1], k[2]) = {} =>
              CountsExactly(emojis, k, Cardinality(Ran("trackCustomEmoji", k[1], k[2])))
    /\ \A k \in Servers \X StickerIDs :
          CountsExactly(stickers, k, Cardinality(Ran("trackSticker", k[1], k[2])))

\* three handlers were in flight together (their statements ran in the
\* reverse of the order they were spawned in), each touched the same emoji
\* and the same sticker, and both rows count 3
C14_Witness ==
    /\ DOMAIN inflight = {1, 2, 3}
    /\ \A h \in {1, 2, 3} :
          /\ Len(inflight[h].issued) = 2
          /\ inflight[h].issued[1].op = "trackCustomEmoji" /\ inflight[h].issued[1].id = 1
          /\ inflight[h].issued[2].op = "trackSticker" /\ inflight[h].issued[2].id = 1
    /\ inflight[3].issued[1].seq < inflight[2].issued[1].seq
    /\ inflight[2].issued[1].seq < inflight[1].issued[1].seq
    /\ inflight[1].issued[1].seq < inflight[3].issued[2].seq
    /\ emojis[<<1, 1>>].usage_count = 3
    /\ stickers[<<1, 1>>].usage_count = 3

----------------------------------------------------------------------------
(* Properties of the live-list cache *)

\* C12 (amended): a call that checks the cache before the entry's expiry
\* returns the stored list without a fetch; a call that checks at or after
\* expiry, or finds no entry, makes exactly one fetch and, if the fetch
\* succeeds, returns its result and stores it with expiry = the time the
\* fetch returned + 24h.
C12_CacheTTL ==
    [][ \A c \in DOMAIN calls :
          LET g == calls[c].guild
              hit == g \in DOMAIN emojiCache /\ now < emojiCache[g].ExpiresAt
          IN  /\ (calls[c].pc = "lock" /\ calls'[c].pc # "lock") =>
                     IF hit
                     THEN /\ calls'[c].pc = "done" /\ ~calls'[c].err
                          /\ calls'[c].ret = emojiCache[g].Emojis
                          /\ calls'[c].fetches = 0
                          /\ emojiCache' = emojiCache
                     ELSE calls'[c].pc = "fetch" /\ calls'[c].fetches = 1
              /\ (calls[c].pc = "fetch" /\ calls'[c].pc = "done") =>
                     /\ calls'[c].fetches = 1
                     /\ ~calls'[c].err =>
                            /\ calls'[c].ret = live[g]
                            /\ g \in DOMAIN emojiCache'
                            /\ emojiCache'[g] = CachedEmojiList(live[g], now + TTL)
      ]_vars

\* C12 as stated: every call that checks at or after expiry replaces the entry
\* with expiry = fetch time + 24h.
C12_AlwaysReplaces ==
    [][ \A c \in DOMAIN calls :
          (calls[c].pc = "fetch" /\ calls'[c].pc = "done") =>
              /\ calls[c].guild \in DOMAIN emojiCache'
              /\ emojiCache'[calls[c].guild].ExpiresAt = now + TTL
      ]_vars

\* a first call stored an entry; a second came before its expiry and returned
\* the stored list without a fetch, though the guild's emojis had changed; a
\* third came exactly at the expiry and fetched, and its entry is now stored
C12_Witness ==
    /\ DOMAIN calls = {1, 2, 3}
    /\ \A c \in {1, 2, 3} : calls[c].pc = "done" /\ calls[c].guild = 1 /\ ~calls[c].err
    /\ calls[1].fetches = 1
    /\ calls[2].fetches = 0 /\ calls[2].doneAt > calls[1].doneAt
    /\ calls[2].doneAt < calls[1].doneAt + TTL /\ calls[2].ret = calls[1].ret
    /\ calls[3].fetches = 1 /\ calls[3].doneAt = calls[1].doneAt + TTL
    /\ calls[3].ret # calls[1].ret
    /\ emojiCache[1] = CachedEmojiList(calls[3].ret, calls[3].doneAt + TTL)

Overlap(c, d) == c \in calls[d].with \/ d \in calls[c].with

\* C13: at most one call is between its check and its store; and of two
\* overlapping calls for one guild, if the one that checked first fetched with
\* success, the other (returning before that entry expires) makes no fetch and
\* returns the same list.
C13_OneFetch ==
    /\ Cardinality({c \in DOMAIN calls : calls[c].pc = "fetch"}) <= 1
    /\ \A c, d \in DOMAIN calls :
          (/\ c # d /\ calls[c].pc = "done" /\ calls[d].pc = "done"
           /\ calls[c].guild = calls[d].guild /\ Overlap(c, d)
           /\ calls[c].ticket < calls[d].ticket
           /\ calls[c].fetches = 1 /\ ~calls[c].err
           /\ calls[d].doneAt < calls[c].doneAt + TTL)
          => /\ calls[d].fetches = 0 /\ ~calls[d].err
             /\ calls[d].ret = calls[c].ret

\* three calls for one guild were in flight together with nothing cached; one
\* fetched, the guild's emojis changed, and the other two returned the fetched list
C13_Witness ==
    /\ DOMAIN calls = {1, 2, 3}
    /\ \A c \in {1, 2, 3} : calls[c].pc = "done" /\ calls[c].guild = 1 /\ calls[c].doneAt = 0
    /\ calls[3].with = {1, 2} /\ calls[2].with = {1}
    /\ \E c \in {1, 2, 3} :
          /\ calls[c].fetches = 1 /\ calls[c].ticket = 1 /\ calls[c].ret # live[1]
          /\ \A d \in {1, 2, 3} \ {c} : calls[d].fetches = 0 /\ calls[d].ret = calls[c].ret

----------------------------------------------------------------------------
(* Properties of the event handlers, statement by statement *)

Want(op, name, id, serverID) == [op |-> op, name |-> name, id |-> id, server |-> serverID]

\* the statements a handler has sent, without their outcome
SentBy(h) ==
    [i \in 1..Len(inflight[h].issued) |->
        LET st == inflight[h].issued[i] IN Want(st.op, st.name, st.id, st.server)]

\* one upsert touch per custom-emoji token of the content, in order
RECURSIVE TokensOf(_, _)
TokensOf(content, serverID) ==
    IF content = <<>> THEN <<>>
    ELSE LET seg == Head(content) IN
         (IF seg.kind = "emoji" /\ seg.id # TooBig
          THEN <<Want("trackCustomEmoji", seg.name, seg.id, serverID)>> ELSE <<>>)
         \o TokensOf(Tail(content), serverID)

StickersOf(stks, serverID) ==
    [i \in 1..Len(stks) |-> Want("trackSticker", stks[i].name, stks[i].id, serverID)]

\* handler h sends a statement in this step
Sends(h) ==
    /\ h \in DOMAIN inflight /\ h \in DOMAIN inflight'
    /\ Len(inflight'[h].issued) = Len(inflight[h].issued) + 1

Sending(h) == inflight'[h].issued[Len(inflight'[h].issued)]

OtherRowsKept(old, new, k) ==
    /\ DOMAIN new \ {k} = DOMAIN old \ {k}
    /\ \A j \in DOMAIN old \ {k} : new[j] = old[j]

\* the row of k counts one more than before (1 if there was none)
Touched(old, new, k) ==
    /\ k \in DOMAIN new
    /\ new[k].usage_count = IF k \in DOMAIN old THEN old[k].usage_count + 1 ELSE 1
    /\ OtherRowsKept(old, new, k)

\* the row of k, if any, counts one less than before, but not less than 0
Decremented(old, new, k) ==
    /\ DOMAIN new = DOMAIN old
    /\ k \in DOMAIN old => new[k].usage_count = Max(0, old[k].usage_count - 1)
    /\ OtherRowsKept(old, new, k)

\* what the statement st, run by the store, does to the two tables
EffectOf(st) ==
    LET k == <<st.server, st.id>> IN
    IF ~st.ok THEN emojis' = emojis /\ stickers' = stickers
    ELSE IF st.op = "trackCustomEmoji" THEN Touched(emojis, emojis', k) /\ stickers' = stickers
    ELSE IF st.op = "trackSticker" THEN Touched(stickers, stickers', k) /\ emojis' = emojis
    ELSE Decremented(emojis, emojis', k) /\ stickers' = stickers

\* the tables change only when a handler of an event of one of types sends a
\* statement
OnlyBySending(types) ==
    (emojis' # emojis \/ stickers' # stickers) =>
        \E h \in DOMAIN inflight : Sends(h) /\ inflight[h].event.type \in types

\* C15: a message of a bot or without a guild sends no statement and leaves
\* both tables as they are; any other message sends, under its guild's id, one
\* upsert touch per custom-emoji token occurrence (with an id that is a
\* number of 64 bits) and then one per sticker, and each touch the store runs
\* adds 1 to its row (or creates it at 1) and changes no other row.
C15_MessageTouches ==
    [][ /\ \A h \in DOMAIN inflight' :
              LET ev == inflight'[h].event IN
              ev.type = "message" =>
                  /\ inflight'[h].todo = <<>> =>
                         SentBy(h)' = IF ev.bot \/ ev.guild = NoGuild THEN <<>>
                                      ELSE TokensOf(ev.content, ev.guild)
                                               \o StickersOf(ev.stks, ev.guild)
                  /\ Sends(h) => EffectOf(Sending(h))
        /\ (\A h \in DOMAIN inflight : inflight[h].event.type = "message") =>
               OnlyBySending({"message"})
      ]_vars

\* a message with the same token twice and the same sticker twice has been
\* handled; the rows existed before
C15_Witness ==
    \E h \in DOMAIN inflight :
        /\ inflight[h].event.type = "message" /\ inflight[h].todo = <<>>
        /\ Len(inflight[h].issued) = 4
        /\ \A i \in 1..4 : inflight[h].issued[i].ok
        /\ inflight[h].issued[1] = [inflight[h].issued[2] EXCEPT !.seq = 1]
        /\ inflight[h].issued[3].op = "trackSticker"
        /\ emojis[<<1, 1>>].usage_count >= 3
        /\ stickers[<<1, 1>>].usage_count >= 3

\* C16: a reaction event without a guild or with an emoji that is not custom
\* sends no statement and leaves the store as it is; any other reaction-add
\* sends exactly one upsert touch and any other reaction-remove exactly one
\* decrement, for the event's <<guild, emoji>>, and the statement changes no
\* other row.
C16_ReactionTouches ==
    [][ /\ \A h \in DOMAIN inflight' :
              LET ev == inflight'[h].event
                  e == ev.content[1]
              IN  ev.type \in {"add", "rem"} =>
                  /\ inflight'[h].todo = <<>> =>
                         SentBy(h)' =
                             IF ev.guild = NoGuild \/ e.id = UnicodeEmoji THEN <<>>
                             ELSE <<Want(IF ev.type = "add" THEN "trackCustomEmoji"
                                         ELSE "decreaseCustomEmoji", e.name, e.id, ev.guild)>>
                  /\ Sends(h) => EffectOf(Sending(h))
        /\ (\A h \in DOMAIN inflight : inflight[h].event.type \in {"add", "rem"}) =>
               OnlyBySending({"add", "rem"})
      ]_vars

\* a reaction-remove was handled: the row of its emoji went down, and rows of
\* another emoji and of a sticker are there
C16_Witness ==
    \E h \in DOMAIN inflight :
        /\ inflight[h].event.type = "rem" /\ inflight[h].todo = <<>>
        /\ Len(inflight[h].issued) = 1 /\ inflight[h].issued[1].ok
        /\ inflight[h].issued[1].id = 1
        /\ <<1, 1>> \in DOMAIN emojis /\ emojis[<<1, 1>>].usage_count = 1
        /\ <<1, 2>> \in DOMAIN emojis
        /\ <<1, 1>> \in DOMAIN stickers

\* C17: an interaction that carries an embedded message sends, under the
\* interaction's guild, one upsert touch per custom-emoji token of that
\* message's content and one per sticker of it.
C17_EmbeddedMessageTracked ==
    \A h \in DOMAIN inflight :
        LET ev == inflight[h].event IN
        (ev.type = "interaction" /\ inflight[h].todo = <<>> /\ ev.guild # NoGuild) =>
            SentBy(h) = TokensOf(ev.content, ev.guild) \o StickersOf(ev.stks, ev.guild)

\* C18: a decrement on a pair without a row creates no row and changes no
\* row: while no upsert has run on the pair it has no row, the sticker rows
\* count their own touches, and when upserts follow the decrements the row
\* counts the upserts alone (the first one starts it at 1).
C18_AbsentDecrement ==
    /\ \A k \in Servers \X ReactionIDs :
          LET touches == Ran("trackCustomEmoji", k[1], k[2])
              decs == Ran("decreaseCustomEmoji", k[1], k[2])
          IN  /\ touches = {} => k \notin DOMAIN emojis
              /\ (touches # {} /\ \A d \in decs, t \in touches : d.seq < t.seq) =>
                     k \in DOMAIN emojis /\ emojis[k].usage_count = Cardinality(touches)
    /\ \A k \in Servers \X StickerIDs :
          CountsExactly(stickers, k, Cardinality(Ran("trackSticker", k[1], k[2])))

\* a sticker had its row, then a decrement ran on an emoji without a row, then
\* an upsert: the emoji's row counts 1 and the sticker's row is as it was
C18_Witness ==
    /\ \E d \in Ran("decreaseCustomEmoji", 1, 1), t \in Ran("trackCustomEmoji", 1, 1),
          k \in Ran("trackSticker", 1, 1) :
          k.seq = 1 /\ d.seq = 2 /\ t.seq = 3
    /\ Cardinality(Issued) = 3
    /\ emojis[<<1, 1>>].usage_count = 1
    /\ stickers[<<1, 1>>].usage_count = 1

\* C19: a decrement on an existing row sets its last_used to the time of the
\* decrement and leaves its first_used as it was.
C19_DecrementStampsLastUsed ==
    [][ \A h \in DOMAIN inflight :
          (/\ Sends(h) /\ Sending(h).ok /\ Sending(h).op = "decreaseCustomEmoji"
           /\ <<Sending(h).server, Sending(h).id>> \in DOMAIN emojis)
          => LET k == <<Sending(h).server, Sending(h).id>> IN
             /\ k \in DOMAIN emojis'
             /\ emojis'[k].last_used = now
             /\ emojis'[k].first_used = emojis[k].first_used
      ]_vars

\* C20: an upsert touch on an existing row overwrites the stored name with the
\* name the touch carries.
C20_TouchOverwritesName ==
    [][ \A h \in DOMAIN inflight :
          (/\ Sends(h) /\ Sending(h).ok
           /\ Sending(h).op \in {"trackCustomEmoji", "trackSticker"})
          => LET k == <<Sending(h).server, Sending(h).id>>
                 tbl == IF Sending(h).op = "trackSticker" THEN stickers' ELSE emojis'
             IN  k \in DOMAIN tbl /\ tbl[k].name = Sending(h).name
      ]_vars

-----------------------------------------------------------------------------
(* Properties of the least-used command *)

\* the list that the answered call of getGuildEmojis returned
CachedList == calls[request.call].ret

AscendingPair(a, b) ==
    \/ a.Count < b.Count
    \/ a.Count = b.Count /\ a.LastUsed <= b.LastUsed

\* C21: the answer of the least-used command lists at most 25 emojis, each one
\* both in the list that getGuildEmojis returned and tracked in the emoji
\* table of the guild, in ascending order of usage_count and then last_used;
\* an emoji that is tracked but not in that list is not among them
C21_LeastUsedValid ==
    (request.type = "listleastused" /\ response.type = "leastused") =>
        LET g == request.guild
            rows == response.rows
        IN  /\ Len(rows) <= 25
            /\ \A i \in 1..Len(rows) :
                  /\ rows[i].ID \in IDs(CachedList)
                  /\ <<g, rows[i].ID>> \in DOMAIN emojis
                  /\ rows[i].Count = emojis[<<g, rows[i].ID>>].usage_count
                  /\ rows[i].LastUsed = emojis[<<g, rows[i].ID>>].last_used
            /\ \A i, j \in 1..Len(rows) :
                  i < j => rows[i].ID # rows[j].ID /\ AscendingPair(rows[i], rows[j])
            /\ \A k \in DOMAIN emojis :
                  (k[1] = g /\ k[2] \notin IDs(CachedList)) =>
                      \A i \in 1..Len(rows) : rows[i].ID # k[2]

\* C21 witness: 25 emojis are listed from a cached list that is no longer the
\* guild's list, holds an untracked emoji and lacks a tracked one, while more
\* than 25 tracked emojis are in it
C21_Witness ==
    /\ request.type = "listleastused"
    /\ response.type = "leastused"
    /\ Len(response.rows) = 25
    /\ CachedList # live[request.guild]
    /\ \E id \in IDs(CachedList) : <<request.guild, id>> \notin DOMAIN emojis
    /\ \E k \in DOMAIN emojis : k[1] = request.guild /\ k[2] \notin IDs(CachedList)
    /\ Cardinality({k \in DOMAIN emojis :
                       k[1] = request.guild /\ k[2] \in IDs(CachedList)}) > 25

-----------------------------------------------------------------------------
(* Properties of the paged read *)

\* the stored row that the listed row d of server serverID shows
RowOf(tbl, serverID, d) == tbl[<<serverID, d.ID>>]

\* rows are the rows at positions offset .. offset+limit-1 (counted from 0) of
\* the rows of serverID in tbl sorted by usage_count descending, then last_used
\* descending: as many as there are such positions, each a row of the server
\* that fewer than its position + 1 rows must precede and that must precede
\* no more rows than come after its position
IsPageOf(rows, tbl, serverID, offset, limit) ==
    LET keys == {k \in DOMAIN tbl : k[1] = serverID}
        n == Cardinality(keys)
        positions == {q \in offset..(offset + limit - 1) : 0 <= q /\ q < n}
    IN  /\ Len(rows) = Cardinality(positions)
        /\ \A i \in 1..Len(rows) :
              /\ <<serverID, rows[i].ID>> \in keys
              /\ rows[i] = Data(tbl, <<serverID, rows[i].ID>>)
              /\ Cardinality({k \in keys : Before(tbl[k], RowOf(tbl, serverID, rows[i]))})
                    <= offset + i - 1
              /\ Cardinality({k \in keys : Before(RowOf(tbl, serverID, rows[i]), tbl[k])})
                    <= n - (offset + i)
        /\ \A i, j \in 1..Len(rows) : i < j => rows[i].ID # rows[j].ID

-----------------------------------------------------------------------------
(* Properties of the handlers under store errors *)

\* the calls of todo that will send a statement: all but the matches whose id
\* does not parse
WillSend(todo) ==
    {i \in 1..Len(todo) : ~(todo[i].op = "match" /\ ParseInt(todo[i].id).err)}

\* C23: whatever statements of a message's handler have failed and whatever
\* matches it has skipped, the handler has sent the first statements of the
\* message (one touch per token with a 64-bit id, then one per sticker), is
\* still to send all the others, can take its next step, and has sent them
\* all when it returns.
C23_ErrorsDoNotStop ==
    \A h \in DOMAIN inflight :
        LET ev == inflight[h].event
            all == TokensOf(ev.content, ev.guild) \o StickersOf(ev.stks, ev.guild)
            sent == SentBy(h)
        IN  (ev.type = "message" /\ ~ev.bot /\ ev.guild # NoGuild) =>
                /\ Len(sent) <= Len(all)
                /\ sent = SubSeq(all, 1, Len(sent))
                /\ Len(sent) + Cardinality(WillSend(inflight[h].todo)) = Len(all)
                /\ inflight[h].todo # <<>> => ENABLED Exec(h, TRUE)
                /\ inflight[h].todo = <<>> => sent = all

\* C23 witness: a message's handler has returned after it skipped an emoji id
\* that does not parse and the store failed its next touch: the two stickers
\* of the message were touched all the same
C23_Witness ==
    \E h \in DOMAIN inflight :
        /\ inflight[h].event.type = "message" /\ inflight[h].todo = <<>>
        /\ Len(inflight[h].event.content) = 2
        /\ inflight[h].event.content[1].id = TooBig
        /\ Len(inflight[h].issued) = 3
        /\ inflight[h].issued[1].op = "trackCustomEmoji" /\ ~inflight[h].issued[1].ok
        /\ inflight[h].issued[2].op = "trackSticker" /\ inflight[h].issued[2].ok
        /\ inflight[h].issued[3].op = "trackSticker" /\ inflight[h].issued[3].ok
        /\ <<1, 1>> \notin DOMAIN emojis
        /\ <<1, 1>> \in DOMAIN stickers /\ stickers[<<1, 1>>].usage_count = 2

-----------------------------------------------------------------------------
(* Properties of the live-list cache under fetch errors *)

\* the call that checked the cache last for guild g, if any did
LastEntered(g) ==
    {c \in DOMAIN calls :
        /\ calls[c].guild = g /\ calls[c].ticket > 0
        /\ \A d \in DOMAIN calls :
              (calls[d].guild = g /\ calls[d].ticket > 0) => calls[d].ticket <= calls[c].ticket}

\* C24: a call whose fetch fails returns the error and no list, leaves the
\* cache map as it was and releases the mutex it held; and the call that
\* checks the cache next for the guild starts a fetch.
C24_FetchFailure ==
    [][ \A c \in DOMAIN calls :
          /\ (calls[c].pc = "fetch" /\ calls'[c].pc = "done" /\ calls'[c].err) =>
                 /\ calls'[c].ret = <<>>
                 /\ emojiCache' = emojiCache
                 /\ emojiCacheMutex = c /\ emojiCacheMutex' = Unlocked
          /\ (/\ calls[c].pc = "lock" /\ calls'[c].pc # "lock"
              /\ \E f \in LastEntered(calls[c].guild) : calls[f].err) =>
                 calls'[c].pc = "fetch" /\ calls'[c].fetches = 1
      ]_vars

\* C24 witness: a first call stored an entry, the fetch of a second call
\* failed at the entry's expiry, and a third call is fetching while the map
\* still holds the first call's expired entry
C24_Witness ==
    /\ DOMAIN calls = {1, 2, 3}
    /\ \A c \in {1, 2, 3} : calls[c].guild = 1
    /\ calls[1].pc = "done" /\ ~calls[1].err /\ calls[1].fetches = 1
    /\ calls[2].pc = "done" /\ calls[2].err /\ calls[2].ret = <<>>
    /\ calls[2].doneAt >= calls[1].doneAt + TTL
    /\ calls[3].pc = "fetch" /\ calls[3].ticket = 3 /\ emojiCacheMutex = 3
    /\ DOMAIN emojiCache = {1}
    /\ emojiCache[1] = CachedEmojiList(calls[1].ret, calls[1].doneAt + TTL)
    /\ calls[1].ret # <<>>

-----------------------------------------------------------------------------
(* Properties of the navigation buttons *)

InRange(page, totalPages) == 0 <= page /\ page <= totalPages - 1

\* the page that a navigation token names, -1 if it names none
TokenPage(customID) ==
    LET parts == Split(customID) IN
    IF Len(parts) = 2 /\ ~Atoi(parts[2]).err THEN Atoi(parts[2]).val ELSE -1

\* C25: a list command renders page 0 of at least one page; under a list
\* rendered with a page within [0, totalPages - 1] every button "<<", "<",
\* ">", ">>" carries a token for a page within [0, totalPages - 1]; and a
\* click on such a button of such a list is answered, the rows being the
\* same, with a list of as many pages whose page is within that range.
C25_NavigationStaysInRange ==
    /\ (request.type \in {"listemotes", "liststickers"} /\ response.type = "list") =>
           response.page = 0 /\ response.totalPages >= 1
    /\ (response.type = "list" /\ InRange(response.page, response.totalPages)) =>
           \A i \in 1..Len(response.components) :
               IsNav(response.components[i].Label) =>
                   /\ KindOf(response.components[i].CustomID) = response.kind
                   /\ InRange(TokenPage(response.components[i].CustomID), response.totalPages)
    /\ (/\ request.type = "button" /\ request.from.type = "list"
        /\ IsNav(request.label)
        /\ InRange(request.from.page, request.from.totalPages)) =>
           /\ response.type = "list"
           /\ response.totalPages = request.from.totalPages
           /\ InRange(response.page, response.totalPages)

\* C25 witness: ">>" was clicked on a page less than 10 pages before the last
\* one, and the last page is rendered, with "<<" and "<" under it
C25_Witness ==
    /\ request.type = "button" /\ request.from.type = "list"
    /\ request.label = <<">", ">">>
    /\ InRange(request.from.page, request.from.totalPages)
    /\ request.from.page > 0
    /\ request.from.page + 10 > request.from.totalPages - 1
    /\ response.type = "list"
    /\ response.page = response.totalPages - 1
    /\ {<<"<", "<">>, <<"<">>} \subseteq Labels(response.components)

-----------------------------------------------------------------------------
(* Properties of the reset under store errors *)

ResetFailed == [type |-> "error", text |-> "Failed to reset counts."]

\* C26: a reset in a guild runs the emoji delete without answering, whether
\* the statement fails or not, and the sticker delete can always follow; the
\* sticker delete leaves the emoji table alone and either removes the guild's
\* sticker rows or fails and removes none; the answer that follows it is the
\* confirmation if the first delete had succeeded and the second removed
\* rows, and the failure report if the first delete had failed or sticker
\* rows of the guild remain; no other step answers with the failure report.
C26_ResetErrors ==
    /\ [](resetPc.stage = "emojisDone" => ENABLED ResetDeleteStickers(FALSE))
    /\ [][ /\ (resetPc.stage = "idle" /\ resetPc'.stage = "emojisDone") =>
                 /\ response' = NoResponse
                 /\ stickers' = stickers
                 /\ resetPc'.err1 => emojis' = emojis
           /\ (resetPc.stage = "emojisDone" /\ resetPc'.stage = "idle") =>
                 /\ emojis' = emojis
                 /\ \/ stickers' = stickers
                    \/ /\ NoRowsOf(stickers', resetPc.server)
                       /\ OthersKept(stickers, stickers', resetPc.server)
                 /\ response'.type \in {"resetOk", "error"}
                 /\ response'.type = "error" => response' = ResetFailed
                 /\ resetPc.err1 => response' = ResetFailed
                 /\ ~NoRowsOf(stickers', resetPc.server) => response' = ResetFailed
                 /\ (~resetPc.err1 /\ stickers' # stickers) => response'.type = "resetOk"
           /\ (response' = ResetFailed /\ response # ResetFailed) =>
                 resetPc.stage = "emojisDone" /\ resetPc'.stage = "idle"
         ]_vars

\* C26 witness: a reset of a guild with rows of both kinds was answered with
\* the failure report; the guild's emoji rows are still there, its sticker
\* rows are gone
C26_Witness ==
    /\ request.type = "resetcount"
    /\ response = ResetFailed
    /\ resetPc.stage = "idle"
    /\ request.hadEmojis /\ request.hadStickers
    /\ ~NoRowsOf(emojis, request.server)
    /\ NoRowsOf(stickers, request.server)

====
